---- MODULE Spec2Model ----
(***************************************************************************)
(* A model of murker.py: the entity registry with its type index, the      *)
(* event fold over an entity's components, the component catalog, the      *)
(* BerserkAI controller and the turn order loop.                           *)
(*                                                                         *)
(* A component instance is a pair <<tag, kind>>; the state of the instance *)
(* (point, hp, max_hp, damage) is kept per tag.  In a scheduler run the    *)
(* tag of a component is the id of the entity it was created for.          *)
(* Python lists are sequences; list index 0 is sequence index 1.           *)
(***************************************************************************)
EXTENDS Integers, Sequences, FiniteSets, TLC

\* Bounds of the model.
MaxN == 3           \* largest nr_goblins
MaxCoord == 4       \* initial coordinates are drawn from 0..MaxCoord
MaxHp == 3          \* max_hp given to every Destructible
RegEnts == 2        \* entities of the registry specification
RegTags == 2        \* component instances per kind, registry specification
MaxComps == 3       \* most components attached at a time, registry specification
CallEnts == 1       \* entities of the call-by-call specification
CallCoord == 1      \* Move events of the call-by-call specification go to 0..CallCoord

VARIABLES
    id_counter,       \* Entity.id_counter; entity ids are 0..id_counter-1
    components,       \* e.components, per entity id
    owner,            \* c.entity, per component instance
    component_index,  \* Entity.component_index: kind -> list of entity ids
    point,            \* Position.point.x, per tag
    hp,               \* Destructible.hp, per tag
    max_hp,           \* Destructible.max_hp, per tag
    damage,           \* Attacker.damage, per tag
    entity,           \* the loop variable `entity` of the turn order loop
    pc,               \* position of the main program, or the exception that ended it
    trace,            \* the component deliveries of the Turn dispatch just made
    call              \* the call a test driver made last, with the value it returned

vars == <<id_counter, components, owner, component_index, point, hp, max_hp,
          damage, entity, pc, trace, call>>

\* Python's None.  TLC compares only values of one sort, so None is written
\* once per sort: an exception name, an entity id, a component, an event.
None == "None"

None_entity == -1

None_component == <<None_entity, "None">>

None_event == [type |-> "None"]

\* No call was made: the value of `call` in a run of the main program, which
\* uses no return value (line 259 drops that of entity.update).
NoCall ==
    [op |-> "None", entity |-> None_entity, component |-> None_component,
     event |-> None_event, type |-> None, amount |-> 0, ret |-> None_event]

Kinds == {"Nameable", "Position", "Destructible", "Attacker", "Defender", "Actor"}

\* ------------------------------------------------------------------------
\* Helpers

sign(x) == IF x < 0 THEN -1 ELSE 1

abs(x) == IF x < 0 THEN -x ELSE x

min(a, b) == IF a < b THEN a ELSE b

Range(s) == {s[i] : i \in 1..Len(s)}

\* list.remove(x): drops the first element equal to x (x must be present).
list_remove(s, x) ==
    LET i == CHOOSE k \in 1..Len(s) : s[k] = x /\ \A j \in 1..(k-1) : s[j] # x
    IN  SubSeq(s, 1, i-1) \o SubSeq(s, i+1, Len(s))

\* ------------------------------------------------------------------------
\* Events

Turn == [type |-> "Turn"]

Move(destination) == [type |-> "Move", destination |-> destination]

Attack(dmg) == [type |-> "Attack", damage |-> dmg]

\* ------------------------------------------------------------------------
\* The mutable world the operations below transform.  err is the exception
\* that is propagating (None when there is none); rnd holds the outcomes of
\* the chance() samples of the dispatch.

World(rnd) ==
    [components |-> components, owner |-> owner,
     component_index |-> component_index, point |-> point, hp |-> hp,
     trace |-> <<>>, err |-> None, rnd |-> rnd]

type(c) == c[2]

\* isinstance(c, component_type): every concrete kind derives from Component
\* and from nothing else.
isinstance(c, component_type) ==
    component_type = "Component" \/ type(c) = component_type

set_owner(w, c, e) == [w EXCEPT !.owner[c] = e]

get_component(w, e, component_type) ==
    LET hits == {i \in 1..Len(w.components[e]) :
                    type(w.components[e][i]) = component_type}
    IN  IF hits = {} THEN None_component
        ELSE w.components[e][CHOOSE i \in hits : \A j \in hits : i <= j]

filter(w, c) ==
    IF c \in DOMAIN w.component_index THEN w.component_index[c] ELSE <<>>

attach(w, e, component) ==
    LET w1 == set_owner(w, component, e)
        w2 == [w1 EXCEPT !.components[e] = Append(@, component)]
        ix == IF type(component) \in DOMAIN w2.component_index
              THEN w2.component_index
              ELSE w2.component_index @@ (type(component) :> <<>>)
    IN  [w2 EXCEPT !.component_index =
            [ix EXCEPT ![type(component)] = Append(@, e)]]

\* detach that leaves the entity in the bucket of the type.
detach_keeps_index(w, e, component_type) ==
    LET hits == {i \in 1..Len(w.components[e]) :
                    isinstance(w.components[e][i], component_type)}
    IN  IF hits = {} THEN w
        ELSE
            LET c  == w.components[e][CHOOSE i \in hits : \A j \in hits : i <= j]
                w1 == set_owner(w, c, None_entity)
            IN  [w1 EXCEPT !.components[e] = list_remove(@, c)]

detach(w, e, component_type) ==
    LET hits == {i \in 1..Len(w.components[e]) :
                    isinstance(w.components[e][i], component_type)}
    IN  IF hits = {} THEN w
        ELSE
            LET c  == w.components[e][CHOOSE i \in hits : \A j \in hits : i <= j]
                w1 == set_owner(w, c, None_entity)
                w2 == [w1 EXCEPT !.components[e] = list_remove(@, c)]
            IN  IF component_type \notin DOMAIN w2.component_index
                THEN [w2 EXCEPT !.err = "KeyError"]
                ELSE IF e \notin Range(w2.component_index[component_type])
                THEN [w2 EXCEPT !.err = "ValueError"]
                ELSE [w2 EXCEPT !.component_index[component_type] =
                                    list_remove(@, e)]

\* ------------------------------------------------------------------------
\* Components.  An update yields [w |-> the world after it, ret |-> the
\* event it returns, or None].

RECURSIVE update(_, _, _)

\* A default update that returns nothing.
Component_update_swallows(w, c, event) == [w |-> w, ret |-> None_event]

Component_update(w, c, event) == [w |-> w, ret |-> event]

\* A Position that lets a Move pass without taking the destination.
Position_update_ignores(w, c, event) == [w |-> w, ret |-> event]

Position_update(w, c, event) ==
    IF event.type = "Move"
    THEN [w |-> [w EXCEPT !.point[c[1]] = event.destination], ret |-> event]
    ELSE [w |-> w, ret |-> event]

Destructible_init(m, h) == IF h = None_entity \/ h = 0 THEN m ELSE h

alive(w, c) == w.hp[c[1]] > 0

\* modify_hp that forgets to detach the Actor of an entity that died.
modify_hp_keeps_actor(w, c, amount) ==
    IF ~alive(w, c) THEN w
    ELSE [w EXCEPT !.hp[c[1]] = min(@ + amount, max_hp[c[1]])]

\* modify_hp without the early return of line 157-158.
modify_hp_no_guard(w, c, amount) ==
    LET w1 == [w EXCEPT !.hp[c[1]] = min(@ + amount, max_hp[c[1]])]
    IN  IF ~alive(w1, c) /\ w1.owner[c] # None_entity
                         /\ get_component(w1, w1.owner[c], "Actor") # None_component
        THEN detach(w1, w1.owner[c], "Actor")
        ELSE w1

modify_hp(w, c, amount) ==
    IF ~alive(w, c) THEN w
    ELSE
        LET w1 == [w EXCEPT !.hp[c[1]] = min(@ + amount, max_hp[c[1]])]
        IN  IF ~alive(w1, c)
            THEN IF w1.owner[c] = None_entity
                 THEN [w1 EXCEPT !.err = "AttributeError"]
                 ELSE detach(w1, w1.owner[c], "Actor")
            ELSE w1

Destructible_update(w, c, event) ==
    IF event.type = "Attack"
    THEN [w |-> modify_hp(w, c, -event.damage), ret |-> event]
    ELSE [w |-> w, ret |-> event]

\* An attack that steps onto the target instead of striking it.
attack_moves(w, c, target) ==
    update(w, w.owner[c],
           Move(w.point[get_component(w, target, "Position")[1]]))

\* The narration "attacks" is kept in the trace: a miss delivers nothing.
attack(w, c, target) ==
    LET w1 == [w EXCEPT !.trace = Append(@,
                 [entity |-> w.owner[c], component |-> c, event |-> "Attack",
                  what |-> "attacks"])]
    IN  IF w1.rnd.accuracy
        THEN update(w1, target, Attack(damage[c[1]]))
        ELSE w1

Defender_update(w, c, event) ==
    IF event.type = "Attack" /\ w.rnd.evasion
    THEN [w |-> w, ret |-> None_event]
    ELSE [w |-> w, ret |-> event]

\* ------------------------------------------------------------------------
\* BerserkAI

closeness(w, e, my_pos) ==
    abs(w.point[get_component(w, e, "Position")[1]] - my_pos)

\* The destination that is the coordinate of the closest enemy itself.
destination_jumps(my_pos, diff) == my_pos + diff

destination(my_pos, diff) == my_pos + sign(diff)

act(w, me) ==
    LET bucket  == filter(w, "Actor")
        enemies == SelectSeq(bucket, LAMBDA x :
                       x # me /\ alive(w, get_component(w, x, "Destructible")))
    IN  IF Len(enemies) = 0 THEN w
        ELSE
            LET my_pos == w.point[get_component(w, me, "Position")[1]]
                k == CHOOSE i \in 1..Len(enemies) :
                        /\ \A j \in 1..Len(enemies) :
                              closeness(w, enemies[i], my_pos)
                                  <= closeness(w, enemies[j], my_pos)
                        /\ \A j \in 1..(i-1) :
                              closeness(w, enemies[j], my_pos)
                                  > closeness(w, enemies[i], my_pos)
                closest_enemy == enemies[k]
                diff == w.point[get_component(w, closest_enemy, "Position")[1]]
                            - my_pos
            IN  IF diff = 0 THEN [w EXCEPT !.err = "AssertionError"]
                ELSE IF abs(diff) = 1
                THEN attack(w, get_component(w, me, "Attacker"), closest_enemy)
                ELSE update(w, me, Move(destination(my_pos, diff)))

Actor_update(w, c, event) ==
    IF event.type = "Turn"
    THEN [w |-> act(w, w.owner[c]), ret |-> event]
    ELSE [w |-> w, ret |-> event]

\* c.update(event), dispatched on the concrete kind of c.
dispatch(w, c, event) ==
    CASE type(c) = "Position"     -> Position_update(w, c, event)
      [] type(c) = "Destructible" -> Destructible_update(w, c, event)
      [] type(c) = "Defender"     -> Defender_update(w, c, event)
      [] type(c) = "Actor"        -> Actor_update(w, c, event)
      [] OTHER                    -> Component_update(w, c, event)

\* ------------------------------------------------------------------------
\* Entity.update: `for c in self.components` walks the list by index while
\* the body may shorten it.  i is the index of the next element to visit.

\* The fold that records a veto but goes on to the next component with the
\* event it was given.
RECURSIVE update_loop_no_veto(_, _, _, _, _)
update_loop_no_veto(w, e, event, tmp, i) ==
    IF w.err # None \/ i > Len(w.components[e]) THEN w
    ELSE
        LET c  == w.components[e][i]
            w1 == [w EXCEPT !.trace = Append(@,
                     [entity |-> e, component |-> c, event |-> event.type,
                      what |-> "update"])]
            r  == dispatch(w1, c, tmp)
        IN  IF r.w.err # None THEN r.w
            ELSE IF r.ret = None_event
            THEN update_loop_no_veto(
                     [r.w EXCEPT !.trace = Append(@,
                         [entity |-> e, component |-> c, event |-> event.type,
                          what |-> "nothing"])], e, event, event, i + 1)
            ELSE update_loop_no_veto(r.w, e, event, r.ret, i + 1)

RECURSIVE update_loop(_, _, _, _, _)
update_loop(w, e, event, tmp, i) ==
    IF w.err # None \/ i > Len(w.components[e]) THEN w
    ELSE
        LET c  == w.components[e][i]
            w1 == [w EXCEPT !.trace = Append(@,
                     [entity |-> e, component |-> c, event |-> event.type,
                      what |-> "update"])]
            r  == dispatch(w1, c, tmp)
        IN  IF r.w.err # None THEN r.w
            ELSE IF r.ret = None_event
            THEN [r.w EXCEPT !.trace = Append(@,
                     [entity |-> e, component |-> c, event |-> event.type,
                      what |-> "nothing"])]
            ELSE update_loop(r.w, e, event, r.ret, i + 1)

update(w, e, event) == update_loop(w, e, event, event, 1)

\* ------------------------------------------------------------------------
\* Example setup (lines 235-247) and the shuffle of the turn order.

\* The order in which the six components are handed to Entity(...).  The
\* first is the order of the example; the second attaches Destructible
\* before Defender; the third also attaches Actor before Destructible.
Bundles ==
    { <<"Nameable", "Position", "Attacker", "Defender", "Destructible", "Actor">>,
      <<"Nameable", "Position", "Attacker", "Destructible", "Defender", "Actor">>,
      <<"Actor", "Destructible", "Nameable", "Defender", "Position", "Attacker">> }

\* The damage handed to every Attacker: one that takes MaxHp to exactly 0
\* and one that does not divide it.
Damages == {MaxHp - 1, MaxHp}

\* Entity.__init__: attach each of `types` to entity e, in order.
RECURSIVE Entity_init(_, _, _)
Entity_init(w, e, types) ==
    IF types = <<>> THEN w
    ELSE Entity_init(attach(w, e, <<e, Head(types)>>), e, Tail(types))

\* for i in range(nr_goblins): Entity(...), entities i..n-1 still to create.
RECURSIVE setup(_, _, _, _)
setup(w, i, n, bundle) ==
    IF i >= n THEN w
    ELSE setup(Entity_init(w, i, bundle), i + 1, n, bundle)

shuffles(s) == {t \in [1..Len(s) -> Range(s)] : Range(t) = Range(s)}

\* turn_order is the list object Entity.filter(Actor) returned: the Actor
\* bucket of the type index itself when the key exists (line 92 returns the
\* stored list, line 254 binds it), a fresh empty list otherwise.
Entities == 0..(id_counter-1)

turn_order ==
    IF "Actor" \in DOMAIN component_index THEN component_index["Actor"] ELSE <<>>

Init ==
    \E n \in 0..MaxN, bundle \in Bundles, d \in Damages :
    \E xs \in [0..(n-1) -> 0..MaxCoord] :
        /\ \A i, j \in 0..(n-1) : i < j => xs[i] < xs[j]
        /\ LET w0 == [components |-> [e \in 0..(n-1) |-> <<>>],
                      owner |-> [c \in (0..(n-1)) \X Kinds |-> None_entity],
                      component_index |-> <<>>, point |-> xs,
                      hp |-> [e \in 0..(n-1) |-> Destructible_init(MaxHp, None_entity)],
                      trace |-> <<>>, err |-> None,
                      rnd |-> [accuracy |-> FALSE, evasion |-> FALSE]]
               w  == setup(w0, 0, n, bundle)
           IN  /\ id_counter = n
               /\ components = w.components
               /\ owner = w.owner
               /\ \E order \in shuffles(filter(w, "Actor")) :
                     component_index =
                        IF n = 0 THEN w.component_index
                        ELSE [w.component_index EXCEPT !["Actor"] = order]
               /\ point = w.point
               /\ hp = w.hp
               /\ max_hp = [e \in 0..(n-1) |-> MaxHp]
               /\ damage = [e \in 0..(n-1) |-> d]
               /\ entity = None_entity
               /\ pc = "loop"
               /\ trace = <<>>
               /\ call = NoCall

\* ------------------------------------------------------------------------
\* The turn order loop (lines 256-266).

\* entity = turn_order.pop(0); IndexError on an empty list.
Pop ==
    /\ pc = "loop"
    /\ IF Len(turn_order) = 0
       THEN /\ pc' = "IndexError"
            /\ UNCHANGED <<component_index, entity>>
       ELSE /\ entity' = Head(turn_order)
            /\ component_index' = [component_index EXCEPT !["Actor"] = Tail(@)]
            /\ pc' = "turn"
    /\ UNCHANGED <<id_counter, components, owner, point, hp, max_hp, damage, trace,
                   call>>

\* entity.update(Turn()), with the outcomes of the chance() samples drawn.
Dispatch(accuracy, evasion) ==
    /\ pc = "turn"
    /\ \E w \in {update(World([accuracy |-> accuracy, evasion |-> evasion]),
                          entity, Turn)} :
           /\ components' = w.components
           /\ owner' = w.owner
           /\ component_index' = w.component_index
           /\ point' = w.point
           /\ hp' = w.hp
           /\ trace' = w.trace
           /\ pc' = IF w.err # None THEN w.err ELSE "cleanup"
    /\ UNCHANGED <<id_counter, max_hp, damage, entity, call>>

TurnStep == \E accuracy, evasion \in BOOLEAN : Dispatch(accuracy, evasion)

\* for x in turn_order: if not x.get_component(Actor): turn_order.remove(x)
\* walks the list by index while removing from it; q is the list, i the
\* index of the next element to visit.
RECURSIVE drop_detached(_, _)
drop_detached(q, i) ==
    IF i > Len(q) THEN q
    ELSE IF get_component(World([accuracy |-> FALSE, evasion |-> FALSE]), q[i], "Actor") = None_component
         THEN drop_detached(list_remove(q, q[i]), i + 1)
         ELSE drop_detached(q, i + 1)

\* The cleanup with the terminal check `len(turn_order) <= 1`.
Cleanup_stops_early ==
    /\ pc = "cleanup"
    /\ LET q == drop_detached(turn_order, 1)
       IN  IF Len(q) <= 1
           THEN /\ pc' = "done"
                /\ component_index' = [component_index EXCEPT !["Actor"] = q]
           ELSE /\ pc' = "loop"
                /\ component_index' =
                      [component_index EXCEPT !["Actor"] = Append(q, entity)]
    /\ trace' = <<>>
    /\ UNCHANGED <<id_counter, components, owner, point, hp, max_hp, damage,
                   entity, call>>

\* The cleanup that re-enqueues the entity before the terminal check.
Cleanup_requeues_first ==
    /\ pc = "cleanup"
    /\ LET q == Append(drop_detached(turn_order, 1), entity)
       IN  /\ pc' = IF Len(q) = 0 THEN "done" ELSE "loop"
           /\ component_index' = [component_index EXCEPT !["Actor"] = q]
    /\ trace' = <<>>
    /\ UNCHANGED <<id_counter, components, owner, point, hp, max_hp, damage,
                   entity, call>>

\* The cleanup that puts the entity back at the front of the queue.
Cleanup_requeues_front ==
    /\ pc = "cleanup"
    /\ LET q == drop_detached(turn_order, 1)
       IN  IF Len(q) = 0
           THEN /\ pc' = "done"
                /\ component_index' = [component_index EXCEPT !["Actor"] = q]
           ELSE /\ pc' = "loop"
                /\ component_index' =
                      [component_index EXCEPT !["Actor"] = <<entity>> \o q]
    /\ trace' = <<>>
    /\ UNCHANGED <<id_counter, components, owner, point, hp, max_hp, damage,
                   entity, call>>

\* Lines 260-266: the cleanup pass, the terminal check, the re-enqueue.
Cleanup ==
    /\ pc = "cleanup"
    /\ LET q == drop_detached(turn_order, 1)
       IN  IF Len(q) = 0
           THEN /\ pc' = "done"
                /\ component_index' = [component_index EXCEPT !["Actor"] = q]
           ELSE /\ pc' = "loop"
                /\ component_index' =
                      [component_index EXCEPT !["Actor"] = Append(q, entity)]
    /\ trace' = <<>>
    /\ UNCHANGED <<id_counter, components, owner, point, hp, max_hp, damage,
                   entity, call>>

Next == Pop \/ TurnStep \/ Cleanup

Spec == Init /\ [][Next]_vars

\* The dispatch just made attempted an attack (line 181).
Attempted ==
    pc = "cleanup" /\ \E k \in 1..Len(trace) : trace[k].what = "attacks"

\* The dispatch just made delivered an Attack that no component vetoed:
\* chance(accuracy) succeeded and chance(evasion) failed.
Landed ==
    /\ pc = "cleanup"
    /\ \E k \in 1..Len(trace) :
          trace[k].what = "update" /\ trace[k].event = "Attack"
    /\ \A k \in 1..Len(trace) : trace[k].what # "nothing"

\* The program runs on while it can: the pop and the cleanup are weakly
\* fair, and a dispatch returns (TurnStep is enabled exactly when
\* pc = "turn" and always leaves it, so its weak fairness is
\* []<>(pc # "turn")).  The random outcomes are fair: an attack attempted
\* again and again eventually hits and is not evaded.
FairSpec ==
    /\ Spec
    /\ WF_vars(Pop)
    /\ WF_vars(Cleanup)
    /\ []<>(pc # "turn")
    /\ ([]<>Attempted => []<>Landed)

\* ------------------------------------------------------------------------
\* The registry on its own: any finite sequence of attach and detach calls
\* on entities created without components.

RegKinds == {"Nameable", "Position"}

RegComps == (0..(RegTags-1)) \X RegKinds

\* The number of components attached to the entities of S.
RECURSIVE attached(_)
attached(S) ==
    IF S = {} THEN 0
    ELSE LET e == CHOOSE x \in S : TRUE
         IN  Len(components[e]) + attached(S \ {e})

InitReg ==
    /\ id_counter = RegEnts
    /\ components = [e \in 0..(RegEnts-1) |-> <<>>]
    /\ owner = [c \in RegComps |-> None_entity]
    /\ component_index = <<>>
    /\ point = <<>>
    /\ hp = <<>>
    /\ max_hp = <<>>
    /\ damage = <<>>
    /\ entity = None_entity
    /\ pc = "registry"
    /\ trace = <<>>
    /\ call = NoCall

RegStep(w) ==
    /\ components' = w.components
    /\ owner' = w.owner
    /\ component_index' = w.component_index
    /\ pc' = IF w.err # None THEN w.err ELSE pc
    /\ UNCHANGED <<id_counter, point, hp, max_hp, damage, entity, trace, call>>

Attach ==
    /\ pc = "registry"
    /\ \E e \in Entities, c \in RegComps :
          /\ attached(Entities) < MaxComps
          /\ RegStep(attach(World([accuracy |-> FALSE, evasion |-> FALSE]), e, c))

Detach ==
    /\ pc = "registry"
    /\ \E e \in Entities, component_type \in RegKinds :
          RegStep(detach(World([accuracy |-> FALSE, evasion |-> FALSE]), e,
                         component_type))

NextReg == Attach \/ Detach

SpecReg == InitReg /\ [][NextReg]_vars

\* ------------------------------------------------------------------------
\* The classes driven call by call: entities set up as in the example, then
\* any finite sequence of entity.update, component.update and modify_hp
\* calls, each with the outcomes of its chance() samples drawn.  A call
\* returns to the driver (pc = "returned"), which drops the value and the
\* narration before its next call.

\* entity.update(event) with the value it returns: line 78 is a bare
\* `return` and the end of the loop falls off the function, so the value is
\* None on both paths.
Entity_update(w, e, event) ==
    LET w1 == update(w, e, event)
        cut == \E k \in 1..Len(w1.trace) :
                   w1.trace[k].entity = e /\ w1.trace[k].what = "nothing"
    IN  [w |-> w1, ret |-> IF cut THEN None_event ELSE None_event]

Events ==
    {Turn} \cup {Move(x) : x \in 0..CallCoord} \cup {Attack(d) : d \in Damages}

\* The amounts handed to modify_hp: damage and healing.  Amount 0 is left
\* out (line 164 then reads `verb`, which no branch assigned).
Amounts == ((-MaxHp)..1) \ {0}

InitCalls ==
    \E n \in 1..CallEnts, bundle \in Bundles, d \in Damages :
    \E xs \in [0..(n-1) -> 0..MaxCoord],
       hs \in [0..(n-1) -> {None_entity} \cup 0..MaxHp] :
        /\ \A i, j \in 0..(n-1) : i < j => xs[i] < xs[j]
        /\ LET w0 == [components |-> [e \in 0..(n-1) |-> <<>>],
                      owner |-> [c \in (0..(n-1)) \X Kinds |-> None_entity],
                      component_index |-> <<>>, point |-> xs,
                      hp |-> [e \in 0..(n-1) |-> Destructible_init(MaxHp, hs[e])],
                      trace |-> <<>>, err |-> None,
                      rnd |-> [accuracy |-> FALSE, evasion |-> FALSE]]
               w  == setup(w0, 0, n, bundle)
           IN  /\ id_counter = n
               /\ components = w.components
               /\ owner = w.owner
               /\ component_index = w.component_index
               /\ point = w.point
               /\ hp = w.hp
               /\ max_hp = [e \in 0..(n-1) |-> MaxHp]
               /\ damage = [e \in 0..(n-1) |-> d]
               /\ entity = None_entity
               /\ pc = "calls"
               /\ trace = <<>>
               /\ call = NoCall

\* The state a call leaves: the world it produced, the exception it raised
\* if any, and the record of the call.
CallStep(w, c) ==
    /\ components' = w.components
    /\ owner' = w.owner
    /\ component_index' = w.component_index
    /\ point' = w.point
    /\ hp' = w.hp
    /\ trace' = w.trace
    /\ pc' = IF w.err # None THEN w.err
             ELSE IF pc = "calls" THEN "returned" ELSE pc
    /\ call' = c
    /\ UNCHANGED <<id_counter, max_hp, damage, entity>>

\* e.update(event)
EntityUpdate ==
    /\ pc = "calls"
    /\ \E e \in Entities, event \in Events, accuracy, evasion \in BOOLEAN :
       \E r \in {Entity_update(World([accuracy |-> accuracy, evasion |-> evasion]),
                                e, event)} :
           CallStep(r.w, [NoCall EXCEPT !.op = "Entity.update", !.entity = e,
                                        !.event = event, !.ret = r.ret])

\* c.update(event) on a component that is attached to an entity
ComponentUpdate ==
    /\ pc = "calls"
    /\ \E c \in DOMAIN owner, event \in Events, accuracy, evasion \in BOOLEAN :
          /\ owner[c] # None_entity
          /\ \E r \in {dispatch(World([accuracy |-> accuracy, evasion |-> evasion]),
                                  c, event)} :
                CallStep(r.w, [NoCall EXCEPT !.op = "Component.update",
                                             !.entity = owner[c], !.component = c,
                                             !.event = event, !.ret = r.ret])

\* e.get_component(Destructible).modify_hp(amount)
ModifyHp ==
    /\ pc = "calls"
    /\ \E e \in Entities, amount \in Amounts :
       \E c \in {get_component(World([accuracy |-> FALSE, evasion |-> FALSE]),
                                e, "Destructible")} :
          /\ c # None_component
          /\ CallStep(modify_hp(World([accuracy |-> FALSE, evasion |-> FALSE]),
                                c, amount),
                      [NoCall EXCEPT !.op = "modify_hp", !.entity = e,
                                     !.component = c, !.amount = amount])

\* The driver goes on: the value the call returned is dropped.
Drop ==
    /\ pc = "returned"
    /\ pc' = "calls"
    /\ call' = NoCall
    /\ trace' = <<>>
    /\ UNCHANGED <<id_counter, components, owner, component_index, point, hp,
                   max_hp, damage, entity>>

NextCalls == EntityUpdate \/ ComponentUpdate \/ ModifyHp \/ Drop

SpecCalls == InitCalls /\ [][NextCalls]_vars

\* ------------------------------------------------------------------------
\* The registry with detach called for any type: the kinds that get
\* attached, the base class Component, and a concrete kind that is never
\* attached to any entity.  Every call is recorded in `call`.

DetachTypes == RegKinds \cup {"Component", "Actor"}

DetachAny ==
    /\ pc = "registry"
    /\ \E e \in Entities, component_type \in DetachTypes :
       \E w \in {detach(World([accuracy |-> FALSE, evasion |-> FALSE]), e,
                          component_type)} :
          CallStep(w, [NoCall EXCEPT !.op = "detach", !.entity = e,
                                     !.type = component_type])

AttachAny ==
    /\ pc = "registry"
    /\ \E e \in Entities, c \in RegComps :
          /\ attached(Entities) < MaxComps
          /\ CallStep(attach(World([accuracy |-> FALSE, evasion |-> FALSE]), e, c),
                      [NoCall EXCEPT !.op = "attach", !.entity = e,
                                     !.component = c])

NextRegAny == AttachAny \/ DetachAny

SpecRegAny == InitReg /\ [][NextRegAny]_vars

\* ========================================================================
\* Properties

holds_actor(e) ==
    get_component(World([accuracy |-> FALSE, evasion |-> FALSE]), e, "Actor")
        # None_component

is_alive(e) == hp[e] > 0

Living == {e \in Entities : is_alive(e)}

\* C1: started with more than one actor, and with attacks that eventually
\* land, the turn loop reaches its stop state.
C1_Termination == (id_counter > 1) => <>(pc = "done")

C1_Witness ==
    /\ pc = "done"
    /\ id_counter > 1
    /\ is_alive(entity)
    /\ hp[entity] < max_hp[entity]

\* C2: when the scheduler stops and reports a victor, the reported entity is
\* alive and every other entity is dead (so it never stops with two or more
\* alive), and a run started with at least one actor never reaches a state
\* without a living actor.
C2_VictorIsSoleSurvivor ==
    /\ pc = "done" =>
          /\ entity \in Entities
          /\ is_alive(entity)
          /\ \A e \in Entities \ {entity} : ~is_alive(e)
    /\ id_counter >= 1 => Living # {}

C2_Witness == pc = "done" /\ id_counter = MaxN /\ Cardinality(Living) = 1

\* C3: with exactly one actor at start the loop runs pop, dispatch, cleanup
\* once and stops reporting that entity, and no step changes an hp or a
\* position.
C3_SingleActorStopsAtOnce ==
    [][id_counter = 1 =>
          /\ hp' = hp
          /\ point' = point
          /\ (pc = "loop" => pc' = "turn" /\ entity' = 0)
          /\ (pc = "turn" => pc' = "cleanup")
          /\ (pc = "cleanup" => pc' = "done" /\ entity' = 0)]_vars

C3_Witness == id_counter = 1 /\ pc = "done" /\ entity = 0 /\ hp = max_hp

\* C4 (as claimed): every Destructible has 0 <= hp <= max_hp in every
\* reachable state.
C4_HpInRange ==
    \A e \in DOMAIN hp : 0 <= hp[e] /\ hp[e] <= max_hp[e]

\* C5: under attach and detach of concrete types, an entity is in the bucket
\* of type T iff get_component finds a component of type T on it.
C5_TypeIndex ==
    \A e \in Entities, T \in Kinds :
        (e \in Range(filter(World([accuracy |-> FALSE, evasion |-> FALSE]), T)))
            <=> (get_component(World([accuracy |-> FALSE, evasion |-> FALSE]),
                               e, T) # None_component)

C5_Witness ==
    /\ pc = "registry"
    /\ \E T \in DOMAIN component_index : component_index[T] = <<>>
    /\ \E T \in DOMAIN component_index : Len(component_index[T]) >= 2

\* C6 (as claimed): in every state of a scheduler run, an entity is in the
\* Actor bucket iff it holds an attached Actor component.
C6_ActorIndexDuringRun ==
    \A e \in Entities : (e \in Range(turn_order)) <=> holds_actor(e)

\* C7: an entity that was popped and is about to be sent its Turn holds an
\* Actor component and is alive.
C7_TurnOnlyForLivingActors ==
    pc = "turn" => entity \in Entities /\ holds_actor(entity) /\ is_alive(entity)

C7_Witness ==
    /\ pc = "turn"
    /\ \E e \in Entities : ~is_alive(e) /\ ~holds_actor(e)

\* C8: the assertion diff != 0 never fails, and no two living actors share
\* a coordinate.
C8_LivingActorsApart ==
    /\ pc # "AssertionError"
    /\ \A a, b \in Living : a # b => point[a] # point[b]

\* A living actor stands on the coordinate of a dead entity.
C8_Witness ==
    \E a, b \in Entities : is_alive(a) /\ ~is_alive(b) /\ point[a] = point[b]

\* The components of entity e whose update the dispatch recorded in tr
\* invoked, in the order of the calls.
invoked(tr, e) ==
    LET calls == SelectSeq(tr, LAMBDA r : r.entity = e /\ r.what = "update")
    IN  [k \in 1..Len(calls) |-> calls[k].component]

\* The components of entity e that returned nothing in the dispatch
\* recorded in tr.
vetoed(tr, e) ==
    {tr[k].component : k \in {j \in 1..Len(tr) :
                                 tr[j].entity = e /\ tr[j].what = "nothing"}}

position_of(list, c) == CHOOSE i \in 1..Len(list) : list[i] = c

\* C9 (as claimed): when the component at position i of an entity's list
\* returns nothing, the updates invoked on that entity in that dispatch are
\* those of the components at positions up to i, each once, in attachment
\* order, and no later one.
C9_ShortCircuit ==
    [][pc = "turn" =>
          \A e \in Entities : \A c \in vetoed(trace', e) :
              invoked(trace', e)
                  = SubSeq(components[e], 1, position_of(components[e], c))]_vars

evaded(tr, e) == \E c \in vetoed(tr, e) : type(c) = "Defender"

unharmed(e) ==
    /\ hp'[e] = hp[e]
    /\ components'[e] = components[e]
    /\ owner' = owner

defender_first(e) ==
    \E i, j \in 1..Len(components[e]) :
        /\ i < j
        /\ type(components[e][i]) = "Defender"
        /\ type(components[e][j]) = "Destructible"

\* C10 (as claimed): an Attack that the entity's Defender evades changes
\* neither the entity's hp, nor its liveness, nor its Actor attachment,
\* whatever the order of its Defender and Destructible.
C10_EvasionVetoAnyOrder ==
    [][pc = "turn" => \A e \in Entities : evaded(trace', e) => unharmed(e)]_vars

\* C10 (amended): the same, for an entity whose Defender was attached
\* before its Destructible.
C10_EvasionVeto ==
    [][pc = "turn" =>
          \A e \in Entities :
              evaded(trace', e) /\ defender_first(e) => unharmed(e)]_vars

\* An Attack that would have killed was evaded by a Defender attached before
\* the Destructible.
C10_Witness ==
    /\ pc = "cleanup"
    /\ \E e \in Entities :
          /\ evaded(trace, e)
          /\ is_alive(e)
          /\ hp[e] <= damage[entity]
          /\ \E i, j \in 1..Len(components[e]) :
                /\ i < j
                /\ type(components[e][i]) = "Defender"
                /\ type(components[e][j]) = "Destructible"

\* C11: a call of modify_hp on a Destructible that is alive sets hp to
\* min(hp + amount, max_hp), and an Attack that reaches the Destructible of a
\* living entity takes its damage off the hp; once the Destructible is not
\* alive, an Attack event sent to its entity or a modify_hp call changes no
\* hp, no component list, no owner and no bucket, and raises nothing.
C11_DeadIgnoreDamage ==
    [][pc = "calls" /\ call'.op \in {"Entity.update", "modify_hp"} =>
          LET e == call'.entity
              reached == \E k \in 1..Len(trace') :
                            /\ trace'[k].entity = e
                            /\ trace'[k].what = "update"
                            /\ type(trace'[k].component) = "Destructible"
          IN  /\ call'.op = "modify_hp" /\ is_alive(e) =>
                    hp'[e] = min(hp[e] + call'.amount, max_hp[e])
              /\ call'.op = "Entity.update" /\ call'.event.type = "Attack"
                        /\ is_alive(e) /\ reached =>
                    hp'[e] = hp[e] - call'.event.damage
              /\ (call'.op = "modify_hp" \/ call'.event.type = "Attack")
                        /\ ~is_alive(e) =>
                    /\ hp' = hp
                    /\ components' = components
                    /\ owner' = owner
                    /\ component_index' = component_index
                    /\ pc' = "returned"]_vars

\* A dead Destructible at hp 0 was asked to heal and is still at hp 0.
C11_Witness ==
    /\ pc = "returned"
    /\ call.op = "modify_hp"
    /\ call.amount > 0
    /\ hp[call.entity] = 0
    /\ ~holds_actor(call.entity)

\* The living actors other than e, their distance to e, and the nearest.
enemies_of(e) == {x \in Entities \ {e} : holds_actor(x) /\ is_alive(x)}

dist(a, b) == IF point[a] < point[b] THEN point[b] - point[a]
              ELSE point[a] - point[b]

nearest(e) ==
    {x \in enemies_of(e) : \A y \in enemies_of(e) : dist(e, x) <= dist(e, y)}

toward(a, b) == IF point[b] > point[a] THEN 1 ELSE -1

\* C12: a turn of an entity whose nearest living enemy actor is more than
\* one unit away moves the entity exactly one unit toward a nearest enemy,
\* and changes no hp and no other entity's position.
C12_Movement ==
    [][pc = "turn" /\ (\E t \in nearest(entity) : dist(entity, t) > 1) =>
          /\ \E t \in nearest(entity) :
                point'[entity] = point[entity] + toward(entity, t)
          /\ \A e \in Entities \ {entity} : point'[e] = point[e]
          /\ hp' = hp]_vars

\* The turn just made delivered a Move to the Position of the acting entity.
C12_Witness ==
    /\ pc = "cleanup"
    /\ \E k \in 1..Len(trace) :
          /\ trace[k].event = "Move"
          /\ trace[k].what = "update"
          /\ trace[k].component = <<entity, "Position">>
    /\ \E t \in enemies_of(entity) : dist(entity, t) >= 1

\* C13: a turn of an entity whose nearest living enemy actor is exactly one
\* unit away attacks and sends no Move: no position changes, and the hp of
\* every entity but one nearest enemy is unchanged.
C13_Adjacency ==
    [][pc = "turn" /\ (\E t \in nearest(entity) : dist(entity, t) = 1) =>
          /\ point' = point
          /\ \E k \in 1..Len(trace') :
                trace'[k].what = "attacks" /\ trace'[k].entity = entity
          /\ \A k \in 1..Len(trace') : trace'[k].event # "Move"
          /\ \E t \in nearest(entity) :
                \A e \in Entities \ {t} : hp'[e] = hp[e]]_vars

\* The turn just made was an attack that took its damage off the enemy next
\* to the acting entity.
C13_Witness ==
    /\ Landed
    /\ \E t \in Entities \ {entity} :
          /\ dist(entity, t) = 1
          /\ hp[t] = max_hp[t] - damage[entity]

\* The actors in the order of their coming turns: the queue, with the
\* entity whose turn is being taken counted as its last element.
ring ==
    IF pc \in {"turn", "cleanup"} THEN Append(turn_order, entity) ELSE turn_order

\* C14: the turn goes to the first of the ring and moves it to the back; a
\* turn takes out of the ring the entities that died and leaves the others
\* in their order; the re-enqueue puts the acting entity at the back of the
\* queue.  The ring then only rotates, so between two turns of an entity
\* every other entity that stays a living actor takes exactly one turn.
C14_RoundRobin ==
    [][/\ pc = "loop" /\ pc' = "turn" =>
             /\ entity' = Head(ring)
             /\ ring' = Append(Tail(ring), Head(ring))
       /\ pc = "turn" /\ pc' = "cleanup" =>
             ring' = SelectSeq(ring, LAMBDA x : hp'[x] > 0)
       /\ pc = "cleanup" /\ pc' = "loop" =>
             /\ ring' = ring
             /\ turn_order' = Append(turn_order, entity)]_vars

\* Three actors started, one died, and the entity that just acted is back
\* in the queue behind the other survivor.
C14_Witness ==
    /\ pc = "loop"
    /\ id_counter = 3
    /\ Cardinality(Living) = 2
    /\ Len(turn_order) = 2
    /\ turn_order[2] = entity

\* C15 (as claimed): detach(e, T) on an entity that holds no component of
\* exactly type T changes no component list, no owner and no bucket and
\* raises nothing, whatever T is.
C15_DetachAbsentNoop ==
    [][pc = "registry" /\ call'.op = "detach"
          /\ get_component(World([accuracy |-> FALSE, evasion |-> FALSE]),
                           call'.entity, call'.type) = None_component =>
          /\ components' = components
          /\ owner' = owner
          /\ component_index' = component_index
          /\ pc' = pc]_vars

\* C16 (as claimed): entity.update(event) returns nothing when a component
\* of the entity returned nothing, and otherwise the event the last
\* component returned, which is the event given since the components return
\* their event itself.
C16_UpdateReturns ==
    [][pc = "calls" /\ pc' = "returned" /\ call'.op = "Entity.update" =>
          IF vetoed(trace', call'.entity) # {}
          THEN call'.ret = None_event
          ELSE call'.ret = call'.event]_vars

\* The event variants a component kind acts on.
handles(kind, variant) ==
    \/ kind = "Position" /\ variant = "Move"
    \/ kind = "Destructible" /\ variant = "Attack"
    \/ kind = "Defender" /\ variant = "Attack"
    \/ kind = "Actor" /\ variant = "Turn"

\* C17: the update of a component of any kind, given an event variant the
\* kind does not act on, returns the event it was given and changes no
\* state.
C17_FoldIdentity ==
    [][pc = "calls" /\ call'.op = "Component.update"
          /\ ~handles(type(call'.component), call'.event.type) =>
          /\ call'.ret = call'.event
          /\ components' = components
          /\ owner' = owner
          /\ component_index' = component_index
          /\ point' = point
          /\ hp' = hp
          /\ pc' = "returned"]_vars

\* A Move went through a Destructible and came back.
C17_Witness ==
    /\ pc = "returned"
    /\ call.op = "Component.update"
    /\ type(call.component) = "Destructible"
    /\ call.event.type = "Move"
    /\ call.ret = call.event

\* C18 (as claimed): a run started with no actor does not fail taking the
\* front of the empty queue.
C18_ZeroActorStart == id_counter = 0 => pc # "IndexError"

\* The components of entity e whose update the dispatch recorded in tr
\* invoked with an event of variant ev, in the order of the calls.
invoked_with(tr, e, ev) ==
    LET calls == SelectSeq(tr, LAMBDA r :
                     r.entity = e /\ r.what = "update" /\ r.event = ev)
    IN  [k \in 1..Len(calls) |-> calls[k].component]

\* C19 (as claimed): in an update call of an entity in which no component
\* returns nothing, the components attached to the entity before and after
\* the call are invoked once each, in attachment order, also when the call
\* detaches a component of that entity.
C19_FoldUnderDetach ==
    [][pc = "turn" =>
          \A e \in Entities, ev \in {"Turn", "Move", "Attack"} :
              invoked_with(trace', e, ev) # <<>> /\ vetoed(trace', e) = {} =>
                  SelectSeq(invoked_with(trace', e, ev),
                            LAMBDA c : c \in Range(components'[e]))
                      = SelectSeq(components[e],
                                  LAMBDA c : c \in Range(components'[e]))]_vars

\* C20: an entity holds an Actor iff its Destructible is alive; an Actor
\* leaves its entity only in a step in which the hp of the entity goes from
\* above zero to zero or below; an entity without an Actor never gets one.
C20_ActorIffAlive ==
    /\ [](\A e \in Entities : holds_actor(e) <=> is_alive(e))
    /\ [][\A e \in Entities :
             /\ holds_actor(e) /\ ~holds_actor(e)' =>
                   pc = "turn" /\ hp[e] > 0 /\ hp'[e] <= 0
             /\ ~holds_actor(e) => ~holds_actor(e)']_vars

\* Between two turns: an entity whose hp went below zero is without its
\* Actor, next to one that is alive and holds its Actor.
C20_Witness ==
    /\ pc = "loop"
    /\ \E e \in Entities : hp[e] < 0 /\ ~holds_actor(e)
    /\ \E e \in Entities : hp[e] > 0 /\ holds_actor(e) /\ e # entity

====
